---- MODULE Spec2Model ----
(***************************************************************************)
(* Model of snake.py: the tick thread (GameWorld.run driving Snake.action) *)
(* and the input thread (InputProcessor.run driving Snake.event_received), *)
(* sharing Snake.direction and Snake.direction_changed.                    *)
(***************************************************************************)
EXTENDS Integers, Sequences, FiniteSets, TLC

\* Board geometry: game_border_width / game_border_height of main(), scaled down.
Width == 6
Height == 4

\* The run is followed until the score reaches MaxScore.
MaxScore == 3

\* The curses key codes that the Direction enum wraps.
KEY_DOWN == 258
KEY_UP == 259
KEY_LEFT == 260
KEY_RIGHT == 261

\* What getch() can return besides them: -1 (no input), 113 (the key q).
OtherKeys == {-1, 113}

Keys == {KEY_DOWN, KEY_UP, KEY_LEFT, KEY_RIGHT} \cup OtherKeys

\* getch() returned without a key.
IsNoInput(key) == key = -1

\* An enum lookup that also takes the key q for a member.
Direction_lenient(event) ==
    CASE event \in {KEY_LEFT, 113} -> "LEFT"
      [] event = KEY_RIGHT -> "RIGHT"
      [] event = KEY_UP -> "UP"
      [] event = KEY_DOWN -> "DOWN"
      [] OTHER -> "ValueError"

\* Direction(event): the enum lookup by value; ValueError for any other value.
Direction(event) ==
    CASE event = KEY_LEFT -> "LEFT"
      [] event = KEY_RIGHT -> "RIGHT"
      [] event = KEY_UP -> "UP"
      [] event = KEY_DOWN -> "DOWN"
      [] OTHER -> "ValueError"

AllCells == (0 .. Height - 1) \X (0 .. Width - 1)

NoCell == <<-1, -1>>

VARIABLES
    cells,              \* GameField.cells: [AllCells -> BOOLEAN], indexed <<y, x>>
    snake_elements,     \* Snake.snake_elements: sequence of <<y, x>>, head first
    direction,          \* Snake.direction
    direction_changed,  \* Snake.direction_changed (Event): is_set()
    direction_lock,     \* Snake.direction_lock: "free" or the holder
    mouse,              \* position of the Mouse in the registry, NoCell if none
    game_objects,       \* GameWorld.game_objects: sequence of kinds
    score,              \* Info.score
    game_over_message,  \* Info.game_over_message
    stop,               \* GameWorld.stop (Event): is_set()
    game_over,          \* str(GameOver) once raised in the action phase, else ""
    tickPc,             \* position of the tick thread in GameWorld.run
    inputPc,            \* position of the input thread in InputProcessor.run
    new_direction,      \* argument of the change_direction call in progress
    \* observations of the run, not read by the program
    lastAdv,            \* the latest _move_head call
    changesSinceAdv,    \* writes that changed direction since the latest _move_head
    flagRequest,        \* the requested heading of the call that set the flag, while set
    tickSnap,           \* state at the start of the latest action(), until the next draw
    inputInTick,        \* a key was dispatched since the start of action(), until the next draw
    ate,                \* the current action() found the mouse under the head
    finalizeLog,        \* messages passed to Finalizer.finalize, in order
    freeCellResult,     \* outcome of the latest get_free_cell call
    quietTicks,         \* plain ticks in a row (up to 3) with no key dispatched since they began
    quietStart,         \* position of the head when those ticks began
    new_char,           \* the key the input thread read last (0: none yet)
    dispatchesAfterStop \* keys dispatched since stop.set(), counted up to 2

vars == <<cells, snake_elements, direction, direction_changed, direction_lock,
          mouse, game_objects, score, game_over_message, stop, game_over,
          tickPc, inputPc, new_direction, lastAdv, changesSinceAdv,
          flagRequest, tickSnap, inputInTick, ate, finalizeLog, freeCellResult,
          quietTicks,
          quietStart,
          new_char,
          dispatchesAfterStop>>

----------------------------------------------------------------------------
\* GameField, Border

\* GameField.__init__: every cell False.
EmptyField == [p \in AllCells |-> FALSE]

\* The cells Border.__init__ marks: rows 0 and height-1, columns 0 and width-1.
BorderCells ==
    {p \in AllCells : p[1] = 0 \/ p[1] = Height - 1 \/ p[2] = 0 \/ p[2] = Width - 1}

\* Border.__init__ applied to a field.
Border(c) == [p \in AllCells |-> IF p \in BorderCells THEN TRUE ELSE c[p]]

\* get_free_cell without the test of the cell.
FreeCellsUntested(c) ==
    {p \in (1 .. Height - 3) \X (1 .. Width - 3) : c[p] \in BOOLEAN}

\* GameField.get_free_cell: the free_cells list, range(1, height - 2) x range(1, width - 2).
FreeCells(c) ==
    {p \in (1 .. Height - 3) \X (1 .. Width - 3) : ~c[p]}

\* GameField.get_free_cell: GameOver('win') on an empty list, else any element.
get_free_cell(c) ==
    IF FreeCells(c) = {}
    THEN {[raised |-> TRUE, cell |-> NoCell]}
    ELSE {[raised |-> FALSE, cell |-> p] : p \in FreeCells(c)}

----------------------------------------------------------------------------
\* Snake

\* The cell one step from p in heading d.
Ahead(p, d) ==
    CASE d = "RIGHT" -> <<p[1], p[2] + 1>>
      [] d = "LEFT" -> <<p[1], p[2] - 1>>
      [] d = "UP" -> <<p[1] - 1, p[2]>>
      [] d = "DOWN" -> <<p[1] + 1, p[2]>>

\* Snake._move_right: raise on an occupied cell, else head.x + 1.
move_right(head, c) ==
    IF c[<<head[1], head[2] + 1>>]
    THEN [msg |-> "bumped right", head |-> head]
    ELSE [msg |-> "", head |-> <<head[1], head[2] + 1>>]

\* _move_left without the test of the destination cell.
move_left_unchecked(head, c) ==
    [msg |-> "", head |-> <<head[1], head[2] - 1>>]

\* Snake._move_left
move_left(head, c) ==
    IF c[<<head[1], head[2] - 1>>]
    THEN [msg |-> "bumped left", head |-> head]
    ELSE [msg |-> "", head |-> <<head[1], head[2] - 1>>]

\* Snake._move_up
move_up(head, c) ==
    IF c[<<head[1] - 1, head[2]>>]
    THEN [msg |-> "bumped up", head |-> head]
    ELSE [msg |-> "", head |-> <<head[1] - 1, head[2]>>]

\* Snake._move_down
move_down(head, c) ==
    IF c[<<head[1] + 1, head[2]>>]
    THEN [msg |-> "bumped down", head |-> head]
    ELSE [msg |-> "", head |-> <<head[1] + 1, head[2]>>]

\* Snake._move_head under the lock: dispatch on the heading, then mark the
\* head's cell; a raise leaves the list and the field as they were.
move_head(d, segs, c) ==
    LET r == CASE d = "RIGHT" -> move_right(segs[1], c)
               [] d = "LEFT" -> move_left(segs[1], c)
               [] d = "UP" -> move_up(segs[1], c)
               [] d = "DOWN" -> move_down(segs[1], c)
    IN  IF r.msg # ""
        THEN [msg |-> r.msg, segs |-> segs, cells |-> c]
        ELSE [msg |-> "", segs |-> [segs EXCEPT ![1] = r.head],
              cells |-> [c EXCEPT ![r.head] = TRUE]]

\* _move_tail leaving the segments behind the head where they are.
move_tail_elements_unshifted(segs) == segs

\* Snake._move_tail, the segments: element idx takes element idx-1's position.
move_tail_elements(segs) ==
    <<segs[1]>> \o SubSeq(segs, 1, Len(segs) - 1)

\* _move_tail without its last statement: the vacated cell stays marked.
move_tail_cells_stale(segs, c) ==
    [p \in AllCells |->
        IF \E i \in 1 .. Len(segs) - 1 : segs[i] = p THEN TRUE ELSE c[p]]

\* Snake._move_tail, the field: the loop marks the positions of elements
\* 0..n-2, the last statement unmarks the position of element n-1.
move_tail_cells(segs, c) ==
    [p \in AllCells |->
        IF p = segs[Len(segs)] THEN FALSE
        ELSE IF \E i \in 1 .. Len(segs) - 1 : segs[i] = p THEN TRUE
        ELSE c[p]]

\* grow appending the copy of the head instead of inserting it at index 0.
grow_append(segs) == segs \o <<segs[1]>>

\* Snake.grow, the insert: a copy of the head at index 0.
grow_insert(segs) == <<segs[1]>> \o segs

\* The chain rejecting only a request for the current heading.
guarded_direction_same_only(requested, current) ==
    IF requested # current THEN requested ELSE current

\* Entering the with block without waiting for the lock.
acquire_unlocked(lock) == TRUE

\* with self.direction_lock: the thread goes on once the lock is free.
acquire(lock) == lock = "free"

\* Snake.change_direction, the if/elif chain: the heading after the call.
guarded_direction(requested, current) ==
    IF requested = "RIGHT" /\ current \notin {"RIGHT", "LEFT"} THEN "RIGHT"
    ELSE IF requested = "LEFT" /\ current \notin {"RIGHT", "LEFT"} THEN "LEFT"
    ELSE IF requested = "UP" /\ current \notin {"UP", "DOWN"} THEN "UP"
    ELSE IF requested = "DOWN" /\ current \notin {"UP", "DOWN"} THEN "DOWN"
    ELSE current

----------------------------------------------------------------------------
\* GameWorld

\* GameWorld.get_game_object: the first object of the kind, None if there is none.
get_game_object(objs, kind) ==
    IF \E i \in 1 .. Len(objs) : objs[i] = kind THEN kind ELSE "None"

\* A removal that removes nothing.
remove_game_object_keep(objs, kind) == objs

\* GameWorld.remove_game_object
IsNotKind(kind, o) == o # kind
remove_game_object(objs, kind) ==
    SelectSeq(objs, LAMBDA o : IsNotKind(kind, o))

\* GameWorld.add for each object main() registers: the Finalizer objects.
finalizers == <<"Info">>

\* finalize losing its argument.
finalize_dropped(message) == ""

\* Info.finalize
finalize(message) == message

NoAdv == [dir |-> "NONE", blocked |-> FALSE, from |-> NoCell, raised |-> ""]
NoSnap == [len |-> 0, score |-> 0, mouse |-> NoCell, mouseAhead |-> FALSE,
           segs |-> <<>>, dir |-> "NONE"]
NoResult == [raised |-> FALSE, cell |-> NoCell]

\* The part of action() after move() starts and before it returns.
InAction == {"action_grow", "action_respawn", "action_clear"}

\* From there to the end of the draw that follows action().
InTick == InAction \cup {"draw"}

\* main(): field, border, snake on a free cell, mouse on another; the input
\* thread is already running when run() starts.
Init ==
    /\ \E s \in FreeCells(Border(EmptyField)) :
         LET c == [Border(EmptyField) EXCEPT ![s] = TRUE]
         IN  \E r \in get_free_cell(c) :
                 /\ ~r.raised
                 /\ cells = c
                 /\ snake_elements = <<s>>
                 /\ mouse = r.cell
                 /\ freeCellResult = r
    /\ direction = "RIGHT"
    /\ direction_changed = FALSE
    /\ direction_lock = "free"
    /\ game_objects = <<"Info", "Border", "Snake", "Mouse">>
    /\ score = 0
    /\ game_over_message = ""
    /\ stop = FALSE
    /\ game_over = ""
    /\ tickPc = "action_move"
    /\ inputPc = "check_stop"
    /\ new_direction = "NONE"
    /\ lastAdv = NoAdv
    /\ changesSinceAdv = 0
    /\ flagRequest = "NONE"
    /\ tickSnap = NoSnap
    /\ inputInTick = FALSE
    /\ ate = FALSE
    /\ finalizeLog = <<>>
    /\ quietTicks = 0
    /\ quietStart = NoCell
    /\ new_char = 0
    /\ dispatchesAfterStop = 0

----------------------------------------------------------------------------
\* The tick thread: GameWorld.run, _perform_actions, Snake.action

\* The observation of one _move_head call on segments segs and field c.
Advance(segs, c, h) ==
    [dir |-> direction, blocked |-> c[Ahead(segs[1], direction)],
     from |-> segs[1], raised |-> h.msg]

\* action(): move() = _move_tail(); _move_head() under the lock; then the
\* mouse lookup and Mouse.intersect(head).
SnakeMove ==
    /\ tickPc = "action_move"
    /\ acquire(direction_lock)
    /\ LET ts == move_tail_elements(snake_elements)
           tc == move_tail_cells(snake_elements, cells)
           h == move_head(direction, ts, tc)
       IN  /\ snake_elements' = h.segs
           /\ cells' = h.cells
           /\ lastAdv' = Advance(ts, tc, h)
           /\ tickSnap' = [len |-> Len(snake_elements), score |-> score,
                           mouse |-> mouse,
                           mouseAhead |-> mouse = Ahead(snake_elements[1], direction),
                           segs |-> snake_elements, dir |-> direction]
           /\ IF h.msg = "" /\ mouse # h.segs[1]
              THEN IF quietTicks \in 1 .. 2
                   THEN /\ quietTicks' = quietTicks + 1
                        /\ quietStart' = quietStart
                   ELSE /\ quietTicks' = 1
                        /\ quietStart' = snake_elements[1]
              ELSE /\ quietTicks' = 0
                   /\ quietStart' = NoCell
           /\ IF h.msg # ""
              THEN /\ game_over' = h.msg
                   /\ tickPc' = "finalize"
                   /\ ate' = FALSE
              ELSE /\ game_over' = game_over
                   /\ IF get_game_object(game_objects, "Mouse") = "None"
                      THEN /\ tickPc' = "crashed"
                           /\ ate' = FALSE
                      ELSE /\ ate' = (mouse = h.segs[1])
                           /\ tickPc' = IF mouse = h.segs[1]
                                        THEN "action_grow" ELSE "action_clear"
    /\ changesSinceAdv' = 0
    /\ inputInTick' = FALSE
    /\ UNCHANGED <<direction, direction_changed, direction_lock, mouse,
                   game_objects, score, game_over_message, stop, inputPc,
                   new_direction, finalizeLog, freeCellResult, flagRequest,
                   new_char,
                   dispatchesAfterStop>>

\* action(): grow() = insert a copy of the head; _move_head() under the lock.
SnakeGrow ==
    /\ tickPc = "action_grow"
    /\ acquire(direction_lock)
    /\ LET gs == grow_insert(snake_elements)
           h == move_head(direction, gs, cells)
       IN  /\ snake_elements' = h.segs
           /\ cells' = h.cells
           /\ lastAdv' = Advance(gs, cells, h)
           /\ IF h.msg # ""
              THEN /\ game_over' = h.msg
                   /\ tickPc' = "finalize"
              ELSE /\ game_over' = game_over
                   /\ tickPc' = "action_respawn"
    /\ changesSinceAdv' = 0
    /\ UNCHANGED <<direction, direction_changed, direction_lock, mouse,
                   game_objects, score, game_over_message, stop, inputPc,
                   new_direction, tickSnap, inputInTick, ate, finalizeLog,
                   freeCellResult, flagRequest,
                   quietTicks,
                   quietStart,
                   new_char,
                   dispatchesAfterStop>>

\* action(): score += 1; remove_game_object(Mouse); add(Mouse(*get_free_cell())).
SnakeRespawn ==
    /\ tickPc = "action_respawn"
    /\ score' = score + 1
    /\ \E r \in get_free_cell(cells) :
          /\ freeCellResult' = r
          /\ IF r.raised
             THEN /\ game_over' = "win"
                  /\ mouse' = NoCell
                  /\ game_objects' = remove_game_object(game_objects, "Mouse")
                  /\ tickPc' = "finalize"
             ELSE /\ game_over' = game_over
                  /\ mouse' = r.cell
                  /\ game_objects' =
                         Append(remove_game_object(game_objects, "Mouse"), "Mouse")
                  /\ tickPc' = "action_clear"
    /\ UNCHANGED <<cells, snake_elements, direction, direction_changed,
                   direction_lock, game_over_message, stop, inputPc,
                   new_direction, lastAdv, changesSinceAdv,
                   tickSnap, inputInTick, ate, finalizeLog, flagRequest,
                   quietTicks,
                   quietStart,
                   new_char,
                   dispatchesAfterStop>>

\* action(): direction_changed.clear(), not under the lock.
SnakeClear ==
    /\ tickPc = "action_clear"
    /\ direction_changed' = FALSE
    /\ flagRequest' = "NONE"
    /\ tickPc' = "draw"
    /\ UNCHANGED <<cells, snake_elements, direction, direction_lock, mouse,
                   game_objects, score, game_over_message, stop, game_over,
                   inputPc, new_direction, lastAdv, changesSinceAdv,
                   tickSnap, inputInTick, ate, finalizeLog, freeCellResult,
                   quietTicks,
                   quietStart,
                   new_char,
                   dispatchesAfterStop>>

\* run(): _draw_objects(); refresh(); sleep; the next iteration's clear().
Draw ==
    /\ tickPc = "draw"
    /\ score < MaxScore
    /\ tickPc' = "action_move"
    /\ tickSnap' = NoSnap
    /\ inputInTick' = FALSE
    /\ ate' = FALSE
    /\ UNCHANGED <<cells, snake_elements, direction, direction_changed,
                   direction_lock, mouse, game_objects, score,
                   game_over_message, stop, game_over, inputPc, new_direction,
                   lastAdv, changesSinceAdv, finalizeLog, freeCellResult, flagRequest,
                   quietTicks,
                   quietStart,
                   new_char,
                   dispatchesAfterStop>>

\* run(), except GameOver: finalize(str(game_over)) on every finalizer.
Finalize ==
    /\ tickPc = "finalize"
    /\ game_over_message' = finalize(game_over)
    /\ finalizeLog' = finalizeLog \o [i \in 1 .. Len(finalizers) |-> game_over]
    /\ tickPc' = "final_draw"
    /\ UNCHANGED <<cells, snake_elements, direction, direction_changed,
                   direction_lock, mouse, game_objects, score, stop, game_over,
                   inputPc, new_direction, lastAdv, changesSinceAdv,
                   tickSnap, inputInTick, ate, freeCellResult, flagRequest,
                   quietTicks,
                   quietStart,
                   new_char,
                   dispatchesAfterStop>>

\* run(), except GameOver: _draw_objects(); refresh().
FinalDraw ==
    /\ tickPc = "final_draw"
    /\ tickPc' = "stop_set"
    /\ UNCHANGED <<cells, snake_elements, direction, direction_changed,
                   direction_lock, mouse, game_objects, score,
                   game_over_message, stop, game_over, inputPc, new_direction,
                   lastAdv, changesSinceAdv, tickSnap, inputInTick,
                   ate, finalizeLog, freeCellResult, flagRequest,
                   quietTicks,
                   quietStart,
                   new_char,
                   dispatchesAfterStop>>

\* run(), except GameOver: stop.set().
StopSet ==
    /\ tickPc = "stop_set"
    /\ stop' = TRUE
    /\ tickPc' = "join"
    /\ UNCHANGED <<cells, snake_elements, direction, direction_changed,
                   direction_lock, mouse, game_objects, score,
                   game_over_message, game_over, inputPc, new_direction,
                   lastAdv, changesSinceAdv, tickSnap, inputInTick,
                   ate, finalizeLog, freeCellResult, flagRequest,
                   quietTicks,
                   quietStart,
                   new_char,
                   dispatchesAfterStop>>

\* run() returning without waiting for the input thread.
JoinNoWait ==
    /\ tickPc = "join"
    /\ tickPc' = "returned"
    /\ UNCHANGED <<cells, snake_elements, direction, direction_changed,
                   direction_lock, mouse, game_objects, score,
                   game_over_message, stop, game_over, inputPc, new_direction,
                   lastAdv, changesSinceAdv, tickSnap, inputInTick,
                   ate, finalizeLog, freeCellResult, flagRequest,
                   quietTicks, quietStart,
                   new_char,
                   dispatchesAfterStop>>

\* run(), except GameOver: input_processor.join().
Join ==
    /\ tickPc = "join"
    /\ inputPc = "exited"
    /\ tickPc' = "returned"
    /\ UNCHANGED <<cells, snake_elements, direction, direction_changed,
                   direction_lock, mouse, game_objects, score,
                   game_over_message, stop, game_over, inputPc, new_direction,
                   lastAdv, changesSinceAdv, tickSnap, inputInTick,
                   ate, finalizeLog, freeCellResult, flagRequest,
                   quietTicks,
                   quietStart,
                   new_char,
                   dispatchesAfterStop>>

----------------------------------------------------------------------------
\* The input thread: InputProcessor.run, Snake.event_received, change_direction

\* The count of keys dispatched after stop.set(), which stops at 2.
dispatched(stopped, n) == IF stopped /\ n < 2 THEN n + 1 ELSE n

\* The loop test never seeing the stop event.
InputCheckStopBlind ==
    /\ inputPc = "check_stop"
    /\ inputPc' = "getch"
    /\ new_char' = 0
    /\ UNCHANGED <<cells, snake_elements, direction, direction_changed,
                   direction_lock, mouse, game_objects, score,
                   game_over_message, stop, game_over, tickPc, new_direction,
                   lastAdv, changesSinceAdv, tickSnap, inputInTick,
                   ate, finalizeLog, freeCellResult, flagRequest,
                   quietTicks, quietStart, dispatchesAfterStop>>

\* run(): while not self.stop_event.is_set(); the key of the iteration
\* that ended is dead (getch() overwrites it, nothing else reads it).
InputCheckStop ==
    /\ inputPc = "check_stop"
    /\ inputPc' = IF stop THEN "exited" ELSE "getch"
    /\ new_char' = 0
    /\ UNCHANGED <<cells, snake_elements, direction, direction_changed,
                   direction_lock, mouse, game_objects, score,
                   game_over_message, stop, game_over, tickPc, new_direction,
                   lastAdv, changesSinceAdv, tickSnap, inputInTick,
                   ate, finalizeLog, freeCellResult, flagRequest,
                   quietTicks,
                   quietStart,
                   dispatchesAfterStop>>

\* run(): getch() returns key; event_received(key): Direction(key) raises
\* ValueError, which is swallowed.
InputIgnored(key) ==
    /\ inputPc = "getch"
    /\ Direction(key) = "ValueError"
    /\ new_char' = key
    /\ dispatchesAfterStop' = dispatched(stop, dispatchesAfterStop)
    /\ inputPc' = "check_stop"
    /\ inputInTick' = (inputInTick \/ (~IsNoInput(key) /\ tickPc \in InTick))
    /\ quietTicks' = IF IsNoInput(key) THEN quietTicks ELSE 0
    /\ quietStart' = IF IsNoInput(key) THEN quietStart ELSE NoCell
    /\ UNCHANGED <<cells, snake_elements, direction, direction_changed,
                   direction_lock, mouse, game_objects, score,
                   game_over_message, stop, game_over, tickPc, new_direction,
                   lastAdv, changesSinceAdv, tickSnap, ate,
                   finalizeLog, freeCellResult, flagRequest>>

\* run(): getch() returns key; event_received(key) calls change_direction,
\* which takes the lock and tests the flag: set, it releases the lock and
\* returns; clear, it goes on holding the lock.
InputChangeDirection(key) ==
    /\ inputPc = "getch"
    /\ Direction(key) # "ValueError"
    /\ new_char' = key
    /\ dispatchesAfterStop' = dispatched(stop, dispatchesAfterStop)
    /\ acquire(direction_lock)
    /\ IF direction_changed
       THEN /\ inputPc' = "check_stop"
            /\ UNCHANGED <<direction_lock, new_direction>>
       ELSE /\ inputPc' = "cd_locked"
            /\ direction_lock' = "input"
            /\ new_direction' = Direction(key)
    /\ inputInTick' = (inputInTick \/ tickPc \in InTick)
    /\ quietTicks' = 0
    /\ quietStart' = NoCell
    /\ UNCHANGED <<cells, snake_elements, direction, direction_changed, mouse,
                   game_objects, score, game_over_message, stop, game_over,
                   tickPc, lastAdv, changesSinceAdv, tickSnap, ate,
                   finalizeLog, freeCellResult, flagRequest>>

\* change_direction setting the flag only when the chain replaced the heading.
InputSetDirectionFlagOnChange ==
    /\ inputPc = "cd_locked"
    /\ direction' = guarded_direction(new_direction, direction)
    /\ changesSinceAdv' =
           IF direction' # direction THEN changesSinceAdv + 1 ELSE changesSinceAdv
    /\ direction_changed' = (direction_changed \/ direction' # direction)
    /\ flagRequest' = IF direction' # direction THEN new_direction ELSE flagRequest
    /\ quietTicks' = 0
    /\ quietStart' = NoCell
    /\ direction_lock' = "free"
    /\ new_direction' = "NONE"
    /\ inputPc' = "check_stop"
    /\ UNCHANGED <<cells, snake_elements, mouse, game_objects, score,
                   game_over_message, stop, game_over, tickPc, lastAdv,
                   tickSnap, inputInTick, ate, finalizeLog,
                   freeCellResult,
                   new_char,
                   dispatchesAfterStop>>

\* change_direction that also marks the cell ahead of the head.
InputSetDirectionMarksAhead ==
    /\ inputPc = "cd_locked"
    /\ direction' = guarded_direction(new_direction, direction)
    /\ changesSinceAdv' =
           IF direction' # direction THEN changesSinceAdv + 1 ELSE changesSinceAdv
    /\ direction_changed' = TRUE
    /\ flagRequest' = new_direction
    /\ quietTicks' = 0
    /\ quietStart' = NoCell
    /\ direction_lock' = "free"
    /\ new_direction' = "NONE"
    /\ inputPc' = "check_stop"
    /\ cells' = [cells EXCEPT ![Ahead(snake_elements[1], direction')] = TRUE]
    /\ UNCHANGED <<snake_elements, mouse, game_objects, score,
                   game_over_message, stop, game_over, tickPc, lastAdv,
                   tickSnap, inputInTick, ate, finalizeLog,
                   freeCellResult,
                   new_char,
                   dispatchesAfterStop>>

\* change_direction, flag found clear: the if/elif chain, direction_changed.set(),
\* release of the lock.
InputSetDirection ==
    /\ inputPc = "cd_locked"
    /\ direction' = guarded_direction(new_direction, direction)
    /\ changesSinceAdv' =
           IF direction' # direction THEN changesSinceAdv + 1 ELSE changesSinceAdv
    /\ direction_changed' = TRUE
    /\ flagRequest' = new_direction
    /\ quietTicks' = 0
    /\ quietStart' = NoCell
    /\ direction_lock' = "free"
    /\ new_direction' = "NONE"
    /\ inputPc' = "check_stop"
    /\ UNCHANGED <<cells, snake_elements, mouse, game_objects, score,
                   game_over_message, stop, game_over, tickPc, lastAdv,
                   tickSnap, inputInTick, ate, finalizeLog,
                   freeCellResult,
                   new_char,
                   dispatchesAfterStop>>

Next ==
    \/ SnakeMove
    \/ SnakeGrow
    \/ SnakeRespawn
    \/ SnakeClear
    \/ Draw
    \/ Finalize
    \/ FinalDraw
    \/ StopSet
    \/ Join
    \/ InputCheckStop
    \/ \E key \in Keys : InputIgnored(key)
    \/ \E key \in Keys : InputChangeDirection(key)
    \/ InputSetDirection

Spec == Init /\ [][Next]_vars

\* getch() returns.
InputDispatch == \E key \in Keys : InputIgnored(key) \/ InputChangeDirection(key)

\* The game with both threads scheduled: the input thread takes its next
\* step (getch() of the nodelay window returns, the lock is released by the
\* other thread), and join() returns once the input thread has exited.
FairSpec ==
    /\ Spec
    /\ WF_vars(InputCheckStop)
    /\ WF_vars(InputDispatch)
    /\ WF_vars(InputSetDirection)
    /\ WF_vars(Join)

----------------------------------------------------------------------------
\* get_free_cell on an arbitrary field inside the border

InteriorCells == AllCells \ BorderCells

GridInit ==
    /\ \E occ \in SUBSET InteriorCells :
          cells = [p \in AllCells |-> p \in BorderCells \/ p \in occ]
    /\ snake_elements = <<>>
    /\ mouse = NoCell
    /\ freeCellResult = NoResult
    /\ direction = "RIGHT"
    /\ direction_changed = FALSE
    /\ direction_lock = "free"
    /\ game_objects = <<"Info", "Border">>
    /\ score = 0
    /\ game_over_message = ""
    /\ stop = FALSE
    /\ game_over = ""
    /\ tickPc = "probe"
    /\ inputPc = "check_stop"
    /\ new_direction = "NONE"
    /\ lastAdv = NoAdv
    /\ changesSinceAdv = 0
    /\ flagRequest = "NONE"
    /\ tickSnap = NoSnap
    /\ inputInTick = FALSE
    /\ ate = FALSE
    /\ finalizeLog = <<>>
    /\ quietTicks = 0
    /\ quietStart = NoCell
    /\ new_char = 0
    /\ dispatchesAfterStop = 0

\* One call of get_free_cell on the field.
ProbeFreeCell ==
    /\ tickPc = "probe"
    /\ \E r \in get_free_cell(cells) :
          /\ freeCellResult' = r
          /\ game_over' = IF r.raised THEN "win" ELSE game_over
    /\ tickPc' = "probed"
    /\ UNCHANGED <<cells, snake_elements, direction, direction_changed,
                   direction_lock, mouse, game_objects, score,
                   game_over_message, stop, inputPc, new_direction, lastAdv,
                   changesSinceAdv, flagRequest, tickSnap, inputInTick, ate,
                   finalizeLog,
                   quietTicks,
                   quietStart,
                   new_char,
                   dispatchesAfterStop>>

GridNext == ProbeFreeCell

GridSpec == GridInit /\ [][GridNext]_vars

----------------------------------------------------------------------------
\* Vocabulary of the properties

Opposite(d) ==
    CASE d = "LEFT" -> "RIGHT"
      [] d = "RIGHT" -> "LEFT"
      [] d = "UP" -> "DOWN"
      [] d = "DOWN" -> "UP"
      [] OTHER -> "NONE"

Axis(d) ==
    CASE d \in {"LEFT", "RIGHT"} -> "horizontal"
      [] d \in {"UP", "DOWN"} -> "vertical"
      [] OTHER -> "none"

Bumped(d) ==
    CASE d = "LEFT" -> "bumped left"
      [] d = "RIGHT" -> "bumped right"
      [] d = "UP" -> "bumped up"
      [] d = "DOWN" -> "bumped down"
      [] OTHER -> "none"

BumpedMessages == {"bumped left", "bumped right", "bumped up", "bumped down"}

Positions(segs) == {segs[i] : i \in 1 .. Len(segs)}

Marked(c) == {p \in AllCells : c[p]}

Abs(n) == IF n < 0 THEN -n ELSE n

Adjacent(p, q) == Abs(p[1] - q[1]) + Abs(p[2] - q[2]) = 1

\* A step in which the tick thread runs _move_head.
HeadAdvanceStep ==
    /\ tickPc \in {"action_move", "action_grow"}
    /\ tickPc' # tickPc

\* A step in which change_direction runs its if/elif chain.
ChainStep ==
    /\ inputPc = "cd_locked"
    /\ inputPc' # inputPc

\* action() has returned and the tick's draw has not run yet.
ActionReturned == tickPc = "draw"

\* action() has raised GameOver and run() has not handled it yet.
ActionRaised == tickPc = "finalize"

----------------------------------------------------------------------------
\* Properties

\* C1: between two consecutive head advances of the tick thread at most one
\* change_direction call modifies direction.
C1_OneChangeBetweenAdvances == changesSinceAdv <= 1

\* C2: change_direction leaves direction unchanged when the requested heading
\* is in the axis pair of the current one, so a request for the opposite
\* heading is rejected, and direction is only ever replaced by a heading of
\* the other axis pair, by change_direction and with the requested heading.
C2_ReversalGuard ==
    [][/\ (ChainStep /\ Axis(new_direction) = Axis(direction))
            => direction' = direction
       /\ direction' # direction
            => /\ ChainStep
               /\ direction' = new_direction
               /\ Axis(direction') # Axis(direction)]_vars

\* C2 witness: the flag was set by a request for the opposite of the heading,
\* which the chain rejected.
C2_Witness ==
    /\ direction_changed
    /\ flagRequest = Opposite(direction)

\* C3: a head advance is never in the direction opposite to the one of the
\* head advance before it.
C3_NoReversal ==
    [][(HeadAdvanceStep /\ lastAdv'.raised = "")
          => lastAdv'.dir # Opposite(lastAdv.dir)]_vars

\* C4: after every action() that returns, the marked cells are exactly the
\* border cells and the positions of the segments.
C4_Occupancy ==
    ActionReturned => Marked(cells) = BorderCells \cup Positions(snake_elements)

\* C4 witness: action() returned after a growth, with a snake of three
\* segments or more whose tail has moved.
C4_Witness ==
    /\ ActionReturned
    /\ Len(snake_elements) >= 3
    /\ score >= 2

\* C5: a head advance into a marked cell raises GameOver 'bumped <heading>'
\* and leaves the head where it was; a head advance into a free cell raises
\* nothing and moves the head there.
C5_CollisionDeterminism ==
    lastAdv.dir # "NONE" =>
        /\ lastAdv.blocked =>
              /\ lastAdv.raised = Bumped(lastAdv.dir)
              /\ game_over = Bumped(lastAdv.dir)
              /\ snake_elements[1] = lastAdv.from
        /\ ~lastAdv.blocked =>
              /\ lastAdv.raised = ""
              /\ game_over \notin BumpedMessages
              /\ snake_elements[1] = Ahead(lastAdv.from, lastAdv.dir)

\* C5 witness: the head ran into a segment of the snake, not into the border.
C5_Witness ==
    /\ lastAdv.blocked
    /\ Ahead(lastAdv.from, lastAdv.dir) \notin BorderCells
    /\ game_over = Bumped(lastAdv.dir)

\* C6: the message is empty until run() handles the GameOver; then every
\* finalizer has received, once, the cause: 'bumped <heading>' of the failed
\* advance, or 'win' when get_free_cell found no cell for the new mouse.
C6_CausePropagation ==
    LET cause == IF lastAdv.blocked THEN Bumped(lastAdv.dir) ELSE "win"
    IN  /\ tickPc \in {"action_move", "action_grow", "action_respawn",
                       "action_clear", "draw", "finalize"}
            => (game_over_message = "" /\ finalizeLog = <<>>)
        /\ tickPc \in {"final_draw", "stop_set", "join", "returned"}
            => /\ game_over_message = cause
               /\ finalizeLog = [i \in 1 .. Len(finalizers) |-> cause]
               /\ (cause = "win") = freeCellResult.raised
               /\ freeCellResult.raised => FreeCells(cells) = {}

\* C6 witness: run() returned after the board-full condition.
C6_Witness ==
    /\ tickPc = "returned"
    /\ game_over_message = "win"

\* C7: get_free_cell never returns a cell of the border ring nor a marked cell.
C7_FreeCellIsFreeInterior ==
    (tickPc = "probed" /\ ~freeCellResult.raised)
        => /\ freeCellResult.cell \notin BorderCells
           /\ freeCellResult.cell \in AllCells
           /\ ~cells[freeCellResult.cell]

\* C7 witness: a cell was returned from a field with marked interior cells.
C7_Witness ==
    /\ tickPc = "probed"
    /\ ~freeCellResult.raised
    /\ \E p \in InteriorCells : cells[p]

\* C8: get_free_cell raises GameOver 'win' if and only if no cell of rows
\* 1..height-2, columns 1..width-2 is free.
C8_WinIffInteriorFull ==
    tickPc = "probed"
        => (freeCellResult.raised <=> \A p \in InteriorCells : cells[p])

\* C9: after a tick that ate the mouse and returned, there is one segment
\* more, the segment behind the head is on the mouse's cell, and consecutive
\* segments are orthogonally adjacent.
C9_GrowthPlusOne ==
    (ActionReturned /\ ate)
        => /\ Len(snake_elements) = tickSnap.len + 1
           /\ snake_elements[2] = tickSnap.mouse
           /\ \A i \in 1 .. Len(snake_elements) - 1 :
                  Adjacent(snake_elements[i], snake_elements[i + 1])

\* C9 witness: a snake of two segments or more ate and the tick returned.
C9_Witness ==
    /\ ActionReturned
    /\ ate
    /\ tickSnap.len >= 2

\* C10: a tick that starts with the mouse one cell ahead of the head and
\* gets no input ends with the score and the segment count one higher and a
\* mouse that is on no segment.
C10_EatingScenario ==
    ((ActionReturned \/ ActionRaised) /\ tickSnap.mouseAhead /\ ~inputInTick)
        => /\ score = tickSnap.score + 1
           /\ Len(snake_elements) = tickSnap.len + 1
           /\ mouse # NoCell
           /\ mouse \notin Positions(snake_elements)

\* The cell n steps from p in heading d.
AheadBy(p, d, n) ==
    CASE d = "RIGHT" -> <<p[1], p[2] + n>>
      [] d = "LEFT" -> <<p[1], p[2] - n>>
      [] d = "UP" -> <<p[1] - n, p[2]>>
      [] d = "DOWN" -> <<p[1] + n, p[2]>>
      [] OTHER -> p

\* C11: a tick without input whose destination cell is free and without the
\* mouse moves the head one cell in the heading, gives every other segment
\* its predecessor's previous position, and leaves segment count, score,
\* heading and mouse as they were; three such ticks in a row move the head
\* three cells in the heading and leave the segment count as it was.
C11_PlainTick ==
    /\ (ActionReturned /\ ~ate /\ ~inputInTick)
          => /\ snake_elements =
                    <<Ahead(tickSnap.segs[1], tickSnap.dir)>>
                        \o SubSeq(tickSnap.segs, 1, tickSnap.len - 1)
             /\ Len(snake_elements) = tickSnap.len
             /\ score = tickSnap.score
             /\ direction = tickSnap.dir
             /\ mouse = tickSnap.mouse
    /\ (ActionReturned /\ quietTicks = 3)
          => /\ snake_elements[1] = AheadBy(quietStart, direction, 3)
             /\ Len(snake_elements) = tickSnap.len

\* C11 witness: a snake of one segment heading right after three plain
\* ticks without input.
C11_Witness ==
    /\ ActionReturned
    /\ quietTicks = 3
    /\ Len(snake_elements) = 1
    /\ direction = "RIGHT"
    /\ snake_elements[1] = <<quietStart[1], quietStart[2] + 3>>

\* The steps of run() after it caught GameOver, in order.
ShutdownOrder ==
    {<<"finalize", "final_draw">>, <<"final_draw", "stop_set">>,
     <<"stop_set", "join">>, <<"join", "returned">>}

\* C12: once GameOver is raised no action() runs again (segments, field and
\* score stay), run() goes through finalize on every finalizer, the final
\* draw, stop.set() and join() in this order, returns only with the input
\* thread terminated, and stop is never set before GameOver is raised.
C12_ShutdownProtocol ==
    [][/\ game_over # ""
            => /\ UNCHANGED <<snake_elements, cells, score, game_over>>
               /\ tickPc' # tickPc => <<tickPc, tickPc'>> \in ShutdownOrder
       /\ (tickPc = "finalize" /\ tickPc' = "final_draw")
            => Len(finalizeLog') = Len(finalizers)
       /\ stop' # stop
            => (tickPc = "stop_set" /\ game_over # "" /\ stop')
       /\ tickPc' = "returned" => inputPc' = "exited"]_vars

\* C12 witness: run() returned after a collision, the input thread gone.
C12_Witness ==
    /\ tickPc = "returned"
    /\ inputPc = "exited"
    /\ stop
    /\ game_over \in BumpedMessages

\* A step in which action() clears the flag.
ClearStep ==
    /\ tickPc = "action_clear"
    /\ tickPc' = "draw"

DirectionKeys == {KEY_LEFT, KEY_RIGHT, KEY_UP, KEY_DOWN}

\* A step in which the input thread hands the key it read to event_received.
DispatchStep ==
    /\ inputPc = "getch"
    /\ inputPc' # "getch"

\* C14: a key code other than the four Direction values, the no-input value
\* -1 included, is ignored: event_received returns to the relay loop without
\* raising, never takes the lock, and leaves the heading and the change flag
\* as they were, so the tick's one heading change is still available.
C14_UnrecognizedIgnored ==
    [][(DispatchStep /\ new_char' \notin DirectionKeys)
          => /\ inputPc' = "check_stop"
             /\ UNCHANGED <<direction, direction_changed, direction_lock,
                            new_direction, flagRequest>>]_vars

\* C14 witness: the key q was dispatched inside a tick and the flag is
\* still clear.
C14_Witness ==
    /\ new_char = 113
    /\ inputPc = "check_stop"
    /\ tickPc \in InAction
    /\ inputInTick
    /\ ~direction_changed

\* The states a draw pass shows: the draw of an iteration of run() and the
\* draw made after GameOver.
DrawObserved == tickPc \in {"draw", "final_draw"}

\* C15: in every state a draw pass shows, the final draw after GameOver
\* included, every segment is on a marked cell and no two segments are on
\* the same cell.
C15_SnakeDataInvariant ==
    DrawObserved
        => /\ \A i \in 1 .. Len(snake_elements) : cells[snake_elements[i]]
           /\ \A i, j \in 1 .. Len(snake_elements) :
                  i # j => snake_elements[i] # snake_elements[j]

\* C19: in every state a draw pass shows, up to the final draw after
\* GameOver, the score is the number of segments minus one.
C19_ScoreTracksLength ==
    DrawObserved => score = Len(snake_elements) - 1

\* C16: a change_direction call that finds the flag clear sets it whatever
\* its if/elif chain does with the request; while the flag is set no step
\* changes the heading, and a recognised key dispatched then returns without
\* entering the chain.
C16_FlagGates ==
    [][/\ ChainStep => direction_changed'
       /\ direction_changed => direction' = direction
       /\ (DispatchStep /\ direction_changed /\ new_char' \in DirectionKeys)
            => /\ inputPc' = "check_stop"
               /\ UNCHANGED <<direction, direction_changed, direction_lock>>]_vars

\* C16 witness: the flag was set by a request the guard rejected, and a later
\* call asking for a heading of the other axis has returned with the flag
\* still set.
C16_Witness ==
    /\ direction_changed
    /\ flagRequest = Opposite(direction)
    /\ inputPc = "check_stop"
    /\ new_char \in DirectionKeys
    /\ Axis(Direction(new_char)) # Axis(direction)

\* A step of the input thread.
InputStep == inputPc' # inputPc

\* C18: a step of the input thread, wherever the tick thread stands, leaves
\* the field, the segments, the score, the mouse and the registry of game
\* objects as they were, and the game-over state and the tick thread's
\* position too.
C18_InputFrame ==
    [][InputStep
          => UNCHANGED <<cells, snake_elements, score, mouse, game_objects,
                         game_over, game_over_message, stop, tickPc>>]_vars

\* C18 witness: a key was accepted and replaced the heading between move()
\* and grow() of a tick of a snake of two segments.
C18_Witness ==
    /\ tickPc = "action_grow"
    /\ inputPc = "check_stop"
    /\ new_char \in DirectionKeys
    /\ flagRequest = direction
    /\ direction # tickSnap.dir
    /\ Len(snake_elements) >= 2

\* The number of objects of the kind in the registry.
CountKind(objs, kind) == Cardinality({i \in 1 .. Len(objs) : objs[i] = kind})

\* C20: when the game starts and after every action() that returns, the
\* registry holds exactly one Mouse, get_game_object finds it, and it is on
\* a cell inside the border ring that is not marked and carries no segment.
C20_MouseInvariant ==
    tickPc \in {"action_move", "draw"}
        => /\ CountKind(game_objects, "Mouse") = 1
           /\ get_game_object(game_objects, "Mouse") = "Mouse"
           /\ mouse \in InteriorCells
           /\ ~cells[mouse]
           /\ mouse \notin Positions(snake_elements)

\* C20 witness: a tick starts after the mouse was replaced twice.
C20_Witness ==
    /\ tickPc = "action_move"
    /\ score = 2
    /\ Len(snake_elements) = 3
    /\ game_objects = <<"Info", "Border", "Snake", "Mouse">>
    /\ mouse \in InteriorCells

\* C17: once stop is set the input thread dispatches at most one more key,
\* the one whose read was in progress, then leaves its loop, and join()
\* in run() returns; the input thread never leaves its loop while stop is
\* clear.
C17_RelayTermination ==
    /\ [](inputPc = "exited" => stop)
    /\ [](dispatchesAfterStop <= 1)
    /\ stop ~> (inputPc = "exited")
    /\ stop ~> (tickPc = "returned")

\* C17 witness: run() returned after the input thread dispatched one key
\* between stop.set() and its exit.
C17_Witness ==
    /\ tickPc = "returned"
    /\ inputPc = "exited"
    /\ dispatchesAfterStop = 1

====
